---- MODULE Spec2Model ----
(***************************************************************************)
(* A model of beam's relay engine (src/src/lib.rs): the stream registry    *)
(* `streams`, the upload and download request handlers, and the            *)
(* coordinator task that every accepted upload spawns.                     *)
(*                                                                         *)
(* Requests are numbered in arrival order.  A session is identified by the *)
(* upload request that created it: its mpsc channel (tx, rx), its ready    *)
(* oneshot (ready_tx, ready_rx) and its completion oneshot (complete_tx,   *)
(* complete_rx) are the per-upload variables below.                        *)
(***************************************************************************)
EXTENDS Naturals, Sequences, FiniteSets, TLC

\* ------------------------------------------------------------------ bounds
NumUploads == 2
NumDownloads == 2
NumFiles == 2
\* the largest number of data chunks of an upload body in Spec
MaxBody == 1
\* LongSpec: the body holds up to ChannelCapacity + LongExtra data chunks
LongExtra == 1

\* ------------------------------------------------------- program constants
\* mpsc::channel(16)
ChannelCapacity == 16

Uploads == 1..NumUploads
Downloads == 1..NumDownloads
FileIds == 1..NumFiles
None == 0

\* ------------------------------------------------------------ credentials
Usernames == {"admin", "guest"}
Passwords == {"", "secret", "wrong"}
NoHeader == [kind |-> "missing", username |-> "", password |-> ""]
Malformed == [kind |-> "malformed", username |-> "", password |-> ""]
Basic(n, p) == [kind |-> "basic", username |-> n, password |-> p]
Headers == {NoHeader, Malformed} \cup {Basic(n, p) : n \in Usernames, p \in Passwords}

\* the one-way password hash, an opaque oracle: a hash verifies exactly the
\* password it was made from
hash_password(p) == <<"argon2", p>>
verify_password(p, h) == h = hash_password(p)

AuthConfig(n, p) == [username |-> n, password_hash |-> hash_password(p)]

\* extract_basic_auth: Ok for a well-formed Basic header only
extract_basic_auth(h) == h.kind = "basic"

\* mutant: the empty password is left to the hash oracle
authenticate_user_no_empty_check(cfg, h) ==
    /\ h.username = cfg.username
    /\ verify_password(h.password, cfg.password_hash)

\* authenticate_user: the username matches, the password is not empty and
\* the hash oracle accepts it
authenticate_user(cfg, h) ==
    /\ h.username = cfg.username
    /\ h.password # ""
    /\ verify_password(h.password, cfg.password_hash)

\* both handlers: Unauthorized unless the header parses and authenticates
Authorized(cfg, h) == extract_basic_auth(h) /\ authenticate_user(cfg, h)

\* ---------------------------------------------------------------- channel
\* an item of the mpsc channel: Ok(bytes) or Err(error)
Chunk(u, i) == [tag |-> "Ok", up |-> u, idx |-> i]
ErrMarker(u) == [tag |-> "Err", up |-> u, idx |-> 0]
NoItem == [tag |-> "None", up |-> 0, idx |-> 0]

VARIABLES
    auth,       \* AppState.auth: the configured username and password hash
    streams,    \* AppState.streams: FileId -> the session registered there, or None
    lock,       \* the holder of the streams write lock, or NoTask
    upc,        \* upload handler: where it is
    ufile,      \* upload handler: its filename
    uresp,      \* upload handler: the status it answered, or None
    removed,    \* upload handler: whose entry its final remove() took out, or None
    cpc,        \* coordinator task of the upload: where it is
    limit,      \* the largest number of data chunks the upload body may hold
    btrail,     \* the upload body has yielded its trailers frame
    readLog,    \* the data chunks read from the upload body so far
    held,       \* the item the coordinator is sending
    chan,       \* the items buffered in the session's mpsc channel
    rx,         \* where the channel's receiver is
    ready,      \* the state of the ready oneshot
    outcome,    \* the values sent on complete_tx, in order
    dpc,        \* download handler: where it is
    dfile,      \* download handler: its filename
    dsess,      \* download handler: the session it claimed, or None
    dresp,      \* download handler: the status it answered, or None
    recv        \* download: the items its response body has yielded

uvars == <<upc, ufile, uresp, removed>>
cvars == <<cpc, btrail, readLog, held, chan, outcome>>
dvars == <<dpc, dfile, dsess, dresp, recv>>
vars == <<auth, streams, lock, uvars, cvars, limit, rx, ready, dvars>>

NoTask == <<"none", 0>>
UpTask(u) == <<"upload", u>>
DownTask(d) == <<"download", d>>

\* ------------------------------------------------------------------- Init
\* the state after setup_server_with_port: an empty registry, the
\* credentials hashed, no request yet.  `ups` and `downs` are the requests
\* the clients will make, `lim[u]` bounds the size of the body of upload u.
InitWith(ups, downs, lim, pw) ==
    /\ auth = AuthConfig("admin", pw)
    /\ streams = [f \in FileIds |-> None]
    /\ lock = NoTask
    /\ upc = [u \in Uploads |-> IF u \in ups THEN "idle" ELSE "absent"]
    /\ ufile = [u \in Uploads |-> None]
    /\ uresp = [u \in Uploads |-> None]
    /\ removed = [u \in Uploads |-> None]
    /\ cpc = [u \in Uploads |-> "none"]
    /\ limit = [u \in Uploads |-> lim[u]]
    /\ btrail = [u \in Uploads |-> FALSE]
    /\ readLog = [u \in Uploads |-> <<>>]
    /\ held = [u \in Uploads |-> NoItem]
    /\ chan = [u \in Uploads |-> <<>>]
    /\ rx = [u \in Uploads |-> "none"]
    /\ ready = [u \in Uploads |-> "none"]
    /\ outcome = [u \in Uploads |-> <<>>]
    /\ dpc = [d \in Downloads |-> IF d \in downs THEN "idle" ELSE "absent"]
    /\ dfile = [d \in Downloads |-> None]
    /\ dsess = [d \in Downloads |-> None]
    /\ dresp = [d \in Downloads |-> None]
    /\ recv = [d \in Downloads |-> <<>>]

Init == InitWith(Uploads, Downloads, [u \in Uploads |-> MaxBody], "secret")

\* Filenames are numbered in the order of their first use: a request names a
\* file already named, or the next new one.
Named(f) == (\E u \in Uploads : ufile[u] = f) \/ (\E d \in Downloads : dfile[d] = f)
NextName(f) == \A g \in FileIds : g < f => Named(g)

\* ---------------------------------------------------------- upload_handler
\* the status upload_handler answers for what complete_rx.await gave it
OutcomeStatus(o) ==
    CASE o = "ok" -> 200
      [] o \in {"timeout", "ready_dropped", "read_error"} -> 400
      [] OTHER -> 500

\* mutant: the check never finds the entry
contains_key_never(f) == FALSE

\* streams.contains_key(&filename)
contains_key(f) == streams[f] # None

\* An upload request arrives: the credentials are checked, the channels are
\* made and the handler takes the streams write lock.  (A handler that
\* finds the lock taken waits for it: that is arriving later.)
UploadStart(u, f, h) ==
    /\ upc[u] = "idle"
    /\ \A v \in Uploads : v < u => upc[v] # "idle"
    /\ NextName(f)
    /\ IF ~Authorized(auth, h)
       THEN /\ upc' = [upc EXCEPT ![u] = "done"]
            /\ uresp' = [uresp EXCEPT ![u] = 401]
            /\ UNCHANGED <<lock, ufile>>
       ELSE /\ lock = NoTask
            /\ lock' = UpTask(u)
            /\ upc' = [upc EXCEPT ![u] = "register"]
            /\ ufile' = [ufile EXCEPT ![u] = f]
            /\ UNCHANGED uresp
    /\ UNCHANGED <<auth, streams, removed, cvars, limit, rx, ready, dvars>>

\* mutant: the write guard is not scoped to the insert and lives on while
\* the handler awaits complete_rx
UploadRegisterKeepsGuard(u) ==
    /\ upc[u] = "register"
    /\ lock = UpTask(u)
    /\ IF contains_key(ufile[u])
       THEN /\ upc' = [upc EXCEPT ![u] = "done"]
            /\ uresp' = [uresp EXCEPT ![u] = 409]
            /\ lock' = NoTask
            /\ UNCHANGED <<streams, rx, ready, cpc>>
       ELSE /\ streams' = [streams EXCEPT ![ufile[u]] = u]
            /\ rx' = [rx EXCEPT ![u] = "registry"]
            /\ ready' = [ready EXCEPT ![u] = "pending"]
            /\ cpc' = [cpc EXCEPT ![u] = "wait_ready"]
            /\ upc' = [upc EXCEPT ![u] = "await"]
            /\ UNCHANGED <<uresp, lock>>
    /\ UNCHANGED <<auth, ufile, removed, btrail, readLog, held, chan, outcome,
                   limit, dvars>>

\* Under the lock: Conflict if the filename is registered, else the session
\* is inserted; the lock is released, the coordinator task is spawned and
\* the handler awaits complete_rx.
UploadRegister(u) ==
    /\ upc[u] = "register"
    /\ lock = UpTask(u)
    /\ lock' = NoTask
    /\ IF contains_key(ufile[u])
       THEN /\ upc' = [upc EXCEPT ![u] = "done"]
            /\ uresp' = [uresp EXCEPT ![u] = 409]
            /\ UNCHANGED <<streams, rx, ready, cpc>>
       ELSE /\ streams' = [streams EXCEPT ![ufile[u]] = u]
            /\ rx' = [rx EXCEPT ![u] = "registry"]
            /\ ready' = [ready EXCEPT ![u] = "pending"]
            /\ cpc' = [cpc EXCEPT ![u] = "wait_ready"]
            /\ upc' = [upc EXCEPT ![u] = "await"]
            /\ UNCHANGED uresp
    /\ UNCHANGED <<auth, ufile, removed, btrail, readLog, held, chan, outcome,
                   limit, dvars>>

\* complete_rx.await has a value: the handler takes the write lock again
UploadCleanupLock(u) ==
    /\ upc[u] = "await"
    /\ outcome[u] # <<>>
    /\ lock = NoTask
    /\ lock' = UpTask(u)
    /\ upc' = [upc EXCEPT ![u] = "cleanup"]
    /\ UNCHANGED <<auth, streams, ufile, uresp, removed, cvars, limit, rx, ready,
                   dvars>>

\* mutant: only the success arm removes the entry
RemoveOnSuccessOnly(u) ==
    IF outcome[u][1] = "ok" THEN streams[ufile[u]] ELSE None

\* state.streams.write().await.remove(&filename): the entry found under the
\* filename, whichever session it holds, is removed and dropped (its
\* receiver and its ready_tx with it)
RemoveOnOutcome(u) == streams[ufile[u]]

\* the remove and the response
UploadCleanup(u) ==
    LET s == RemoveOnOutcome(u) IN
    /\ upc[u] = "cleanup"
    /\ lock = UpTask(u)
    /\ lock' = NoTask
    /\ removed' = [removed EXCEPT ![u] = s]
    /\ IF s # None
       THEN /\ streams' = [streams EXCEPT ![ufile[s]] = None]
            /\ rx' = [rx EXCEPT ![s] = "dropped"]
            /\ ready' = [ready EXCEPT ![s] = "dropped"]
            /\ chan' = [chan EXCEPT ![s] = <<>>]
       ELSE UNCHANGED <<streams, rx, ready, chan>>
    /\ uresp' = [uresp EXCEPT ![u] = OutcomeStatus(outcome[u][1])]
    /\ upc' = [upc EXCEPT ![u] = "done"]
    /\ UNCHANGED <<auth, ufile, cpc, btrail, readLog, held, outcome, limit, dvars>>

\* The uploading client goes away while the handler awaits complete_rx: the
\* handler future is dropped (complete_rx with it); the spawned task runs on.
UploadCancel(u) ==
    /\ upc[u] = "await"
    /\ upc' = [upc EXCEPT ![u] = "cancelled"]
    /\ UNCHANGED <<auth, streams, lock, ufile, uresp, removed, cvars, limit, rx,
                   ready, dvars>>

\* ------------------------------------------------- the spawned coordinator
\* complete_tx.send(v), and the task ends (tx, ready_rx and the body drop)
Emit(u, v) ==
    /\ outcome' = [outcome EXCEPT ![u] = Append(@, v)]
    /\ cpc' = [cpc EXCEPT ![u] = "done"]

\* mutant: the coordinator does not wait for the signal
CoordReadyNoWait(u) ==
    /\ cpc[u] = "wait_ready"
    /\ cpc' = [cpc EXCEPT ![u] = "read"]
    /\ UNCHANGED <<auth, streams, lock, uvars, btrail, readLog, held, chan,
                   outcome, limit, rx, ready, dvars>>

\* timeout(300 s, ready_rx) gives Ok(Ok(())): the signal was sent
CoordReady(u) ==
    /\ cpc[u] = "wait_ready"
    /\ ready[u] = "sent"
    /\ cpc' = [cpc EXCEPT ![u] = "read"]
    /\ UNCHANGED <<auth, streams, lock, uvars, btrail, readLog, held, chan,
                   outcome, limit, rx, ready, dvars>>

\* mutant: the early return forgets complete_tx.send
CoordReadyDroppedSilent(u) ==
    /\ cpc[u] = "wait_ready"
    /\ ready[u] = "dropped"
    /\ cpc' = [cpc EXCEPT ![u] = "done"]
    /\ UNCHANGED <<auth, streams, lock, uvars, btrail, readLog, held, chan,
                   outcome, limit, rx, ready, dvars>>

\* Ok(Err(_)): ready_tx was dropped without a send
CoordReadyDropped(u) ==
    /\ cpc[u] = "wait_ready"
    /\ ready[u] = "dropped"
    /\ Emit(u, "ready_dropped")
    /\ UNCHANGED <<auth, streams, lock, uvars, btrail, readLog, held, chan,
                   limit, rx, ready, dvars>>

\* mutant: the 300 s timer runs over the whole task, forwarding included
CoordTimeoutWholeTask(u) ==
    /\ cpc[u] \in {"wait_ready", "read", "send", "send_err"}
    /\ cpc[u] = "wait_ready" => ready[u] = "pending"
    /\ Emit(u, "timeout")
    /\ UNCHANGED <<auth, streams, lock, uvars, btrail, readLog, held, chan,
                   limit, rx, ready, dvars>>

\* Err(_): the 300 s elapsed with the signal neither sent nor dropped
CoordTimeout(u) ==
    /\ cpc[u] = "wait_ready"
    /\ ready[u] = "pending"
    /\ Emit(u, "timeout")
    /\ UNCHANGED <<auth, streams, lock, uvars, btrail, readLog, held, chan,
                   limit, rx, ready, dvars>>

\* body_stream.next() gives a data frame
CoordReadData(u) ==
    /\ cpc[u] = "read"
    /\ ~btrail[u]
    /\ Len(readLog[u]) < limit[u]
    /\ LET c == Chunk(u, Len(readLog[u]) + 1) IN
        /\ readLog' = [readLog EXCEPT ![u] = Append(@, c)]
        /\ held' = [held EXCEPT ![u] = c]
    /\ cpc' = [cpc EXCEPT ![u] = "send"]
    /\ UNCHANGED <<auth, streams, lock, uvars, btrail, chan, outcome, limit, rx,
                   ready, dvars>>

\* body_stream.next() gives the trailers: frame.into_data() is Err and the
\* frame is skipped
CoordReadTrailers(u) ==
    /\ cpc[u] = "read"
    /\ ~btrail[u]
    /\ btrail' = [btrail EXCEPT ![u] = TRUE]
    /\ UNCHANGED <<auth, streams, lock, uvars, cpc, readLog, held, chan, outcome,
                   limit, rx, ready, dvars>>

\* body_stream.next() gives Err(error)
CoordReadError(u) ==
    /\ cpc[u] = "read"
    /\ held' = [held EXCEPT ![u] = ErrMarker(u)]
    /\ cpc' = [cpc EXCEPT ![u] = "send_err"]
    /\ UNCHANGED <<auth, streams, lock, uvars, btrail, readLog, chan, outcome,
                   limit, rx, ready, dvars>>

\* body_stream.next() gives None: the loop ends, complete_tx.send(Ok(()))
CoordReadEof(u) ==
    /\ cpc[u] = "read"
    /\ Emit(u, "ok")
    /\ UNCHANGED <<auth, streams, lock, uvars, btrail, readLog, held, chan,
                   limit, rx, ready, dvars>>

\* the receiver of the session's channel is gone: tx.send(..) is Err
Closed(u) == rx[u] = "dropped"

\* mutant: an unbounded channel
HasRoomUnbounded(u) == TRUE

\* tx.send(..).await on an open channel completes once the channel has room
HasRoom(u) == Len(chan[u]) < ChannelCapacity

\* mutant: try_send, a chunk that finds the channel full is dropped
CoordSendDropsWhenFull(u) ==
    /\ cpc[u] = "send"
    /\ held' = [held EXCEPT ![u] = NoItem]
    /\ IF Closed(u)
       THEN /\ Emit(u, "ok")
            /\ UNCHANGED chan
       ELSE /\ chan' = [chan EXCEPT ![u] = IF HasRoom(u) THEN Append(@, held[u]) ELSE @]
            /\ cpc' = [cpc EXCEPT ![u] = "read"]
            /\ UNCHANGED outcome
    /\ UNCHANGED <<auth, streams, lock, uvars, btrail, readLog, limit, rx, ready,
                   dvars>>

\* mutant: a closed channel is reported to the uploader as a failure
CoordSendEscalates(u) ==
    /\ cpc[u] = "send"
    /\ held' = [held EXCEPT ![u] = NoItem]
    /\ IF Closed(u)
       THEN /\ Emit(u, "read_error")
            /\ UNCHANGED chan
       ELSE /\ HasRoom(u)
            /\ chan' = [chan EXCEPT ![u] = Append(@, held[u])]
            /\ cpc' = [cpc EXCEPT ![u] = "read"]
            /\ UNCHANGED outcome
    /\ UNCHANGED <<auth, streams, lock, uvars, btrail, readLog, limit, rx, ready,
                   dvars>>

\* tx.send(Ok(bytes)).await: Err when the receiver is gone (break, then
\* complete_tx.send(Ok(()))); else the chunk is queued once there is room
CoordSend(u) ==
    /\ cpc[u] = "send"
    /\ held' = [held EXCEPT ![u] = NoItem]
    /\ IF Closed(u)
       THEN /\ Emit(u, "ok")
            /\ UNCHANGED chan
       ELSE /\ HasRoom(u)
            /\ chan' = [chan EXCEPT ![u] = Append(@, held[u])]
            /\ cpc' = [cpc EXCEPT ![u] = "read"]
            /\ UNCHANGED outcome
    /\ UNCHANGED <<auth, streams, lock, uvars, btrail, readLog, limit, rx, ready,
                   dvars>>

\* mutant: the read error is reported to the uploader only, no marker is queued
CoordSendErrNoMarker(u) ==
    /\ cpc[u] = "send_err"
    /\ held' = [held EXCEPT ![u] = NoItem]
    /\ UNCHANGED chan
    /\ Emit(u, "read_error")
    /\ UNCHANGED <<auth, streams, lock, uvars, btrail, readLog, limit, rx, ready,
                   dvars>>

\* let _ = tx.send(Err(error)).await; complete_tx.send(Err(error_msg))
CoordSendErr(u) ==
    /\ cpc[u] = "send_err"
    /\ held' = [held EXCEPT ![u] = NoItem]
    /\ IF Closed(u)
       THEN UNCHANGED chan
       ELSE /\ HasRoom(u)
            /\ chan' = [chan EXCEPT ![u] = Append(@, held[u])]
    /\ Emit(u, "read_error")
    /\ UNCHANGED <<auth, streams, lock, uvars, btrail, readLog, limit, rx, ready,
                   dvars>>

\* -------------------------------------------------------- download_handler
\* A download request arrives: the credentials are checked and the handler
\* takes the streams write lock.
DownloadStart(d, f, h) ==
    /\ dpc[d] = "idle"
    /\ \A e \in Downloads : e < d => dpc[e] # "idle"
    /\ NextName(f)
    /\ IF ~Authorized(auth, h)
       THEN /\ dpc' = [dpc EXCEPT ![d] = "done"]
            /\ dresp' = [dresp EXCEPT ![d] = 401]
            /\ UNCHANGED <<lock, dfile>>
       ELSE /\ lock = NoTask
            /\ lock' = DownTask(d)
            /\ dpc' = [dpc EXCEPT ![d] = "claim"]
            /\ dfile' = [dfile EXCEPT ![d] = f]
            /\ UNCHANGED dresp
    /\ UNCHANGED <<auth, streams, uvars, cvars, limit, rx, ready, dsess, recv>>

\* mutant: a miss is answered 200 with an empty body
NotFoundAnswersOk(d) ==
    /\ dpc' = [dpc EXCEPT ![d] = "done"]
    /\ dresp' = [dresp EXCEPT ![d] = 200]
    /\ UNCHANGED <<streams, rx, dsess>>

\* mutant: a miss leaves the request pending, to look again later
NotFoundWaits(d) ==
    /\ dpc' = [dpc EXCEPT ![d] = "idle"]
    /\ UNCHANGED <<streams, rx, dsess, dresp>>

\* the None arm: 404, nothing else
NotFound(d) ==
    /\ dpc' = [dpc EXCEPT ![d] = "done"]
    /\ dresp' = [dresp EXCEPT ![d] = 404]
    /\ UNCHANGED <<streams, rx, dsess>>

\* mutant: the entry is read but stays in the map
ClaimedKeepsEntry(d, s) ==
    /\ rx' = [rx EXCEPT ![s] = "claimed"]
    /\ dsess' = [dsess EXCEPT ![d] = s]
    /\ dpc' = [dpc EXCEPT ![d] = "signal"]
    /\ UNCHANGED <<streams, dresp>>

\* mutant: the lookup ignores the key and takes the oldest entry of the map
ClaimedAnyEntry(d, s) ==
    LET t == CHOOSE v \in Uploads :
                 /\ \E f \in FileIds : streams[f] = v
                 /\ \A w \in Uploads :
                        (\E f \in FileIds : streams[f] = w) => v <= w
    IN  /\ streams' = [streams EXCEPT ![ufile[t]] = None]
        /\ rx' = [rx EXCEPT ![t] = "claimed"]
        /\ dsess' = [dsess EXCEPT ![d] = t]
        /\ dpc' = [dpc EXCEPT ![d] = "signal"]
        /\ UNCHANGED dresp

\* the Some(data) arm: the entry is out of the map and the handler owns
\* its receiver and its ready_tx
Claimed(d, s) ==
    /\ streams' = [streams EXCEPT ![dfile[d]] = None]
    /\ rx' = [rx EXCEPT ![s] = "claimed"]
    /\ dsess' = [dsess EXCEPT ![d] = s]
    /\ dpc' = [dpc EXCEPT ![d] = "signal"]
    /\ UNCHANGED dresp

\* state.streams.write().await.remove(&filename)
DownloadClaim(d) ==
    /\ dpc[d] = "claim"
    /\ lock = DownTask(d)
    /\ lock' = NoTask
    /\ IF streams[dfile[d]] = None
       THEN NotFound(d)
       ELSE Claimed(d, streams[dfile[d]])
    /\ UNCHANGED <<auth, uvars, cvars, limit, ready, dfile, recv>>

\* ready_tx.send(()): the value is delivered while ready_rx is alive, that
\* is while the coordinator still waits; else the send is Err and ignored
SignalReady(s) == IF cpc[s] = "wait_ready" THEN "sent" ELSE "lost"

\* the signal, then the 200 response whose body is the receiver's stream
DownloadSignal(d) ==
    /\ dpc[d] = "signal"
    /\ ready' = [ready EXCEPT ![dsess[d]] = SignalReady(dsess[d])]
    /\ dresp' = [dresp EXCEPT ![d] = 200]
    /\ dpc' = [dpc EXCEPT ![d] = "stream"]
    /\ UNCHANGED <<auth, streams, lock, uvars, cvars, limit, rx, dfile, dsess,
                   recv>>

\* the response body yields the next item of the channel; an Err item ends
\* the body, and the receiver drops with it
DownloadRecv(d) ==
    LET s == dsess[d] IN
    /\ dpc[d] = "stream"
    /\ chan[s] # <<>>
    /\ recv' = [recv EXCEPT ![d] = Append(@, Head(chan[s]))]
    /\ IF Head(chan[s]).tag = "Err"
       THEN /\ dpc' = [dpc EXCEPT ![d] = "error"]
            /\ rx' = [rx EXCEPT ![s] = "dropped"]
            /\ chan' = [chan EXCEPT ![s] = <<>>]
       ELSE /\ chan' = [chan EXCEPT ![s] = Tail(@)]
            /\ UNCHANGED <<dpc, rx>>
    /\ UNCHANGED <<auth, streams, lock, uvars, cpc, btrail, readLog, held,
                   outcome, limit, ready, dfile, dsess, dresp>>

\* the channel is empty and tx is dropped (the coordinator task has ended):
\* the stream yields None and the body ends
DownloadEof(d) ==
    LET s == dsess[d] IN
    /\ dpc[d] = "stream"
    /\ chan[s] = <<>>
    /\ cpc[s] = "done"
    /\ dpc' = [dpc EXCEPT ![d] = "eof"]
    /\ rx' = [rx EXCEPT ![s] = "dropped"]
    /\ UNCHANGED <<auth, streams, lock, uvars, cvars, limit, ready, dfile, dsess,
                   dresp, recv>>

\* the downloading client goes away: the response body, and the receiver
\* with what it buffers, is dropped
DownloadDisconnect(d) ==
    LET s == dsess[d] IN
    /\ dpc[d] = "stream"
    /\ dpc' = [dpc EXCEPT ![d] = "disconnected"]
    /\ rx' = [rx EXCEPT ![s] = "dropped"]
    /\ chan' = [chan EXCEPT ![s] = <<>>]
    /\ UNCHANGED <<auth, streams, lock, uvars, cpc, btrail, readLog, held,
                   outcome, limit, ready, dfile, dsess, dresp, recv>>

\* ------------------------------------------------------------------- Next
Next ==
    \/ \E u \in Uploads, f \in FileIds, h \in Headers : UploadStart(u, f, h)
    \/ \E u \in Uploads : UploadRegister(u)
    \/ \E u \in Uploads : UploadCleanupLock(u)
    \/ \E u \in Uploads : UploadCleanup(u)
    \/ \E u \in Uploads : UploadCancel(u)
    \/ \E u \in Uploads : CoordReady(u)
    \/ \E u \in Uploads : CoordReadyDropped(u)
    \/ \E u \in Uploads : CoordTimeout(u)
    \/ \E u \in Uploads : CoordReadData(u)
    \/ \E u \in Uploads : CoordReadTrailers(u)
    \/ \E u \in Uploads : CoordReadError(u)
    \/ \E u \in Uploads : CoordReadEof(u)
    \/ \E u \in Uploads : CoordSend(u)
    \/ \E u \in Uploads : CoordSendErr(u)
    \/ \E d \in Downloads, f \in FileIds, h \in Headers : DownloadStart(d, f, h)
    \/ \E d \in Downloads : DownloadClaim(d)
    \/ \E d \in Downloads : DownloadSignal(d)
    \/ \E d \in Downloads : DownloadRecv(d)
    \/ \E d \in Downloads : DownloadEof(d)
    \/ \E d \in Downloads : DownloadDisconnect(d)

Spec == Init /\ [][Next]_vars

\* One download and two uploads, the first with a body longer than the
\* channel, the second with an empty body.
LongInit ==
    InitWith({1, 2}, {1},
             [u \in Uploads |-> IF u = 1 THEN ChannelCapacity + LongExtra ELSE 0],
             "secret")

LongSpec == LongInit /\ [][Next]_vars

\* Two uploads and two downloads, every body of at most MaxBody chunks.
PairInit == InitWith({1, 2}, {1, 2}, [u \in Uploads |-> MaxBody], "secret")

PairSpec == PairInit /\ [][Next]_vars

\* The server may have been started with any password, the empty one
\* included (AuthConfig::new hashes whatever it is given).
AuthInit ==
    \E pw \in {"", "secret"} :
        InitWith({1, 2}, {1}, [u \in Uploads |-> IF u = 1 THEN MaxBody ELSE 0], pw)

AuthSpec == AuthInit /\ [][Next]_vars

\* Fair scheduling.  The runtime runs every task that can run: a handler
\* past its authentication, a spawned coordinator, a response body being
\* polled.  The timer fires (CoordTimeout), body_stream.next() returns
\* something (the body is finite), and a downloader that streams takes the
\* next item or goes away.  Nothing obliges a client to make a request or
\* an uploader to stay connected: UploadStart, DownloadStart and
\* UploadCancel carry no fairness.
BodyNext(u) ==
    \/ CoordReadData(u)
    \/ CoordReadTrailers(u)
    \/ CoordReadError(u)
    \/ CoordReadEof(u)

Fairness ==
    /\ \A u \in Uploads :
          /\ WF_vars(UploadRegister(u))
          /\ WF_vars(UploadCleanupLock(u))
          /\ WF_vars(UploadCleanup(u))
          /\ WF_vars(CoordReady(u))
          /\ WF_vars(CoordReadyDropped(u))
          /\ WF_vars(CoordTimeout(u))
          /\ WF_vars(BodyNext(u))
          /\ WF_vars(CoordSend(u))
          /\ WF_vars(CoordSendErr(u))
    /\ \A d \in Downloads :
          /\ WF_vars(DownloadClaim(d))
          /\ WF_vars(DownloadSignal(d))
          /\ WF_vars(DownloadRecv(d) \/ DownloadDisconnect(d))
          /\ WF_vars(DownloadEof(d))

FairSpec == LongInit /\ [][Next]_vars /\ Fairness

\* ================================================================= claims
\* the registry holds the session of upload u
InRegistry(u) == ufile[u] # None /\ streams[ufile[u]] = u

OkItems(q) == SelectSeq(q, LAMBDA x : x.tag = "Ok")

\* C1: a download that claimed a session and consumed until the channel
\* closed, of an upload whose body reached its end without a read error,
\* has received exactly the chunks read from the upload body, in order
\* (none lost, duplicated or added; nothing for an empty body).
C1_DownloadEqualsUpload ==
    \A d \in Downloads :
        (dpc[d] = "eof" /\ outcome[dsess[d]] = <<"ok">>)
            => recv[d] = readLog[dsess[d]]

\* a body longer than the channel went through whole
C1_Witness ==
    \E d \in Downloads :
        /\ dpc[d] = "eof"
        /\ outcome[dsess[d]] = <<"ok">>
        /\ Len(readLog[dsess[d]]) = ChannelCapacity + LongExtra
        /\ recv[d] = readLog[dsess[d]]

\* C2: a download that finds no entry under its filename answers 404 in
\* that same step: it does not wait, fires no readiness signal and leaves
\* the registry (and every session) as it was.
C2_DownloadNotFound ==
    [][\A d \in Downloads :
        (dpc[d] = "claim" /\ dpc'[d] # "claim" /\ streams[dfile[d]] = None)
            => /\ dpc'[d] = "done"
               /\ dresp'[d] = 404
               /\ dsess'[d] = None
               /\ UNCHANGED <<streams, ready, rx, cpc, chan>>]_vars

\* a download answered 404 while an upload of another file waits unclaimed
C2_Witness ==
    \E d \in Downloads, u \in Uploads :
        /\ dresp[d] = 404
        /\ dpc[d] = "done"
        /\ dfile[d] # ufile[u]
        /\ InRegistry(u)
        /\ ready[u] = "pending"

\* C3: the upload that holds the lock registers a session if and only if
\* the registry has no entry for its filename; otherwise it answers 409 and
\* the session registered there is as it was (same channel, signal not
\* fired, still in the registry).
C3_RegisterIffAbsent ==
    [][\A u \in Uploads :
        (upc[u] = "register" /\ upc'[u] # "register")
            => IF streams[ufile[u]] = None
               THEN /\ streams' = [streams EXCEPT ![ufile[u]] = u]
                    /\ upc'[u] = "await"
                    /\ uresp'[u] = None
                    /\ rx'[u] = "registry"
                    /\ ready'[u] = "pending"
               ELSE /\ uresp'[u] = 409
                    /\ upc'[u] = "done"
                    /\ rx'[u] = "none"
                    /\ UNCHANGED <<streams, chan, ready, rx, cpc, outcome>>]_vars

\* an upload was answered 409 and the session it ran into is still
\* registered, unsignalled and claimable
C3_Witness ==
    \E u \in Uploads, v \in Uploads :
        /\ u # v
        /\ uresp[u] = 409
        /\ ufile[u] = ufile[v]
        /\ InRegistry(v)
        /\ rx[v] = "registry"
        /\ ready[v] = "pending"
        /\ cpc[v] = "wait_ready"

\* every other session ever registered under f has been claimed by a download
AllClaimed(u, f) ==
    \A v \in Uploads \ {u} :
        (ufile[v] = f /\ rx[v] # "none") => \E d \in Downloads : dsess[d] = v

\* C4: once the sessions of a filename have been claimed, the upload that
\* registers next under that filename is accepted, even while a claimed
\* transfer still streams, and its session is a new one: an empty channel and
\* an unfired signal of its own, the other sessions' untouched.
C4_ClaimFreesSlot ==
    [][\A u \in Uploads :
        (upc[u] = "register" /\ upc'[u] # "register" /\ AllClaimed(u, ufile[u]))
            => /\ uresp'[u] = None
               /\ upc'[u] = "await"
               /\ streams'[ufile[u]] = u
               /\ chan'[u] = <<>>
               /\ ready'[u] = "pending"
               /\ rx'[u] = "registry"
               /\ \A v \in Uploads \ {u} :
                    /\ chan'[v] = chan[v]
                    /\ ready'[v] = ready[v]
                    /\ rx'[v] = rx[v]]_vars

\* a second upload of the filename is registered while the first transfer,
\* claimed, is still streaming
C4_Witness ==
    \E u \in Uploads, v \in Uploads, d \in Downloads :
        /\ u # v
        /\ ufile[u] = ufile[v]
        /\ dsess[d] = v
        /\ dpc[d] = "stream"
        /\ cpc[v] \in {"read", "send"}
        /\ InRegistry(u)
        /\ upc[u] = "await"
        /\ ready[u] = "pending"

\* C5: the remove an upload handler does when its outcome has arrived takes
\* out its own session's entry or nothing: never the entry another upload
\* of the filename registered, never an entry a download claimed.
C5_RemovesOwnEntryOnly ==
    \A u \in Uploads :
        removed[u] # None
            => /\ removed[u] = u
               /\ ~\E d \in Downloads : dsess[d] = removed[u]

\* C6: the timeout outcome is emitted by a coordinator that was still
\* waiting, unsignalled, and has read nothing of the body; the handler that
\* receives it answers 400, and as it answers the registry has no entry
\* for its filename (so the next upload of it is accepted).
C6_TimeoutFreesName ==
    [][\A u \in Uploads :
        /\ (outcome[u] = <<>> /\ outcome'[u] = <<"timeout">>)
            => /\ cpc[u] = "wait_ready"
               /\ ready[u] = "pending"
               /\ readLog'[u] = <<>>
               /\ ~btrail'[u]
               /\ chan'[u] = <<>>
        /\ (upc[u] = "cleanup" /\ upc'[u] # "cleanup" /\ outcome[u] = <<"timeout">>)
            => /\ readLog[u] = <<>>
               /\ upc'[u] = "done"
               /\ uresp'[u] = 400
               /\ streams'[ufile[u]] = None]_vars

\* an unclaimed upload has timed out and been answered 400, its filename free
C6_Witness ==
    \E u \in Uploads :
        /\ outcome[u] = <<"timeout">>
        /\ upc[u] = "done"
        /\ uresp[u] = 400
        /\ removed[u] = u
        /\ streams[ufile[u]] = None
        /\ ~\E d \in Downloads : dsess[d] = u

\* C7: once the timeout path of a session has run to its end (the
\* coordinator has emitted the timeout and the handler has returned or been
\* cancelled), the registry no longer holds the session's entry.
C7_TimeoutReclaimsEntry ==
    \A u \in Uploads :
        (outcome[u] = <<"timeout">> /\ upc[u] \in {"done", "cancelled"})
            => ~InRegistry(u)

\* the coordinator of u has not observed the readiness signal
NotObserved(u) ==
    \/ cpc[u] = "wait_ready"
    \/ cpc[u] = "done" /\ outcome[u] \in {<<"timeout">>, <<"ready_dropped">>}

\* a download has claimed the session of u and sent the signal
Committed(u) == \E d \in Downloads : dsess[d] = u /\ dpc[d] # "signal"

\* C8: a session whose coordinator has not observed the readiness signal
\* has an empty channel and has read nothing of the upload body; and a
\* coordinator that reads or sends has a downloader that claimed and signalled.
C8_NoStreamingBeforeReady ==
    \A u \in Uploads :
        /\ NotObserved(u)
            => chan[u] = <<>> /\ readLog[u] = <<>> /\ ~btrail[u] /\ held[u] = NoItem
        /\ (cpc[u] \in {"read", "send", "send_err"} \/ readLog[u] # <<>>
                \/ chan[u] # <<>>)
            => Committed(u)

\* a registered upload with its body untouched: the downloader has
\* signalled, the coordinator has yet to see it
C8_Witness ==
    \E u \in Uploads :
        /\ cpc[u] = "wait_ready"
        /\ ready[u] = "sent"
        /\ Committed(u)
        /\ chan[u] = <<>>
        /\ readLog[u] = <<>>

\* the item the coordinator holds outside the channel, as a sequence
HeldSeq(u) == IF held[u] = NoItem THEN <<>> ELSE <<held[u]>>

\* C9: a channel never holds more than 16 items; while the downloader is
\* connected, what was read from the body is exactly what the downloader
\* received, then what the channel holds, then the one chunk the
\* coordinator holds (so at most 16 + 1 chunks are read ahead of the
\* downloader); and a coordinator that holds a chunk for a full, open
\* channel can neither send nor read.
C9_Backpressure ==
    \A u \in Uploads :
        /\ Len(chan[u]) <= ChannelCapacity
        /\ \A d \in Downloads :
            (dsess[d] = u /\ dpc[d] \in {"signal", "stream"})
                => /\ OkItems(recv[d] \o chan[u] \o HeldSeq(u)) = readLog[u]
                   /\ Len(readLog[u]) <= Len(recv[d]) + ChannelCapacity + 1
        /\ (cpc[u] = "send" /\ Len(chan[u]) = ChannelCapacity /\ ~Closed(u))
            => /\ ~ENABLED CoordSend(u)
               /\ ~ENABLED CoordReadData(u)
               /\ ~ENABLED CoordReadEof(u)

\* the channel is full, the downloader connected and not consuming, the
\* coordinator blocked with the 17th chunk
C9_Witness ==
    \E u \in Uploads, d \in Downloads :
        /\ dsess[d] = u
        /\ dpc[d] = "stream"
        /\ recv[d] = <<>>
        /\ Len(chan[u]) = ChannelCapacity
        /\ cpc[u] = "send"
        /\ Len(readLog[u]) = ChannelCapacity + 1
        /\ ~ENABLED CoordSend(u)

\* C10: a coordinator that forwards a chunk to a channel whose receiver is
\* gone is not blocked; that step ends the task with the outcome success
\* and nothing more read from the body; and the handler that receives
\* success answers 200.
C10_DownloaderGoneIsSuccess ==
    /\ [](\A u \in Uploads :
            /\ (cpc[u] = "send" /\ Closed(u)) => ENABLED CoordSend(u)
            /\ (upc[u] = "done" /\ outcome[u] = <<"ok">>) => uresp[u] = 200)
    /\ [][\A u \in Uploads :
            (cpc[u] = "send" /\ Closed(u) /\ cpc'[u] # "send")
                => /\ cpc'[u] = "done"
                   /\ outcome'[u] = <<"ok">>
                   /\ readLog'[u] = readLog[u]
                   /\ chan'[u] = chan[u]]_vars

\* the downloader disconnected having consumed nothing, while the
\* coordinator held the 17th chunk for the full channel; the upload was
\* answered 200
C10_Witness ==
    \E u \in Uploads, d \in Downloads :
        /\ dsess[d] = u
        /\ dpc[d] = "disconnected"
        /\ recv[d] = <<>>
        /\ Len(readLog[u]) = ChannelCapacity + 1
        /\ cpc[u] = "done"
        /\ outcome[u] = <<"ok">>
        /\ upc[u] = "done"
        /\ uresp[u] = 200

\* the downloads that hold the session of u
Claimers(u) == {d \in Downloads : dsess[d] = u}

\* an Err item, if the sequence has one, is its last item
ErrOnlyLast(q) == \A i \in 1..Len(q) : q[i].tag = "Err" => i = Len(q)

\* C11: a read error of the upload body, met while streaming, is emitted as
\* the failure outcome with the error marker queued behind every chunk
\* already forwarded and nothing queued after it; the upload is answered
\* 400; a downloader still connected gets every chunk read and then the
\* marker, and its stream never ends cleanly.
C11_ReadErrorMarker ==
    \A u \in Uploads :
        /\ ErrOnlyLast(chan[u])
        /\ \A d \in Downloads : ErrOnlyLast(recv[d])
        /\ outcome[u] = <<"read_error">>
            => /\ cpc[u] = "done"
               /\ upc[u] = "done" => uresp[u] = 400
               /\ \A d \in Claimers(u) :
                    /\ dpc[d] # "eof"
                    /\ dpc[d] \in {"signal", "stream"}
                        => recv[d] \o chan[u] = Append(readLog[u], ErrMarker(u))
                    /\ dpc[d] = "error"
                        => recv[d] = Append(readLog[u], ErrMarker(u))

\* the body failed after 17 chunks, the last one and then the marker
\* having waited for room in the channel; the downloader got all 17 and
\* the marker, the upload 400
C11_Witness ==
    \E u \in Uploads, d \in Downloads :
        /\ dsess[d] = u
        /\ dpc[d] = "error"
        /\ outcome[u] = <<"read_error">>
        /\ Len(readLog[u]) = ChannelCapacity + 1
        /\ recv[d] = Append(readLog[u], ErrMarker(u))
        /\ upc[u] = "done"
        /\ uresp[u] = 400

\* C12: a coordinator task that has ended has sent exactly one outcome and
\* one that runs has sent none; the handler of a registered upload moves
\* on to its response only with that outcome, and answers 200 exactly
\* when it is success.
C12_OneOutcome ==
    \A u \in Uploads :
        /\ Len(outcome[u]) <= 1
        /\ cpc[u] = "done" <=> Len(outcome[u]) = 1
        /\ upc[u] = "cleanup" => Len(outcome[u]) = 1
        /\ (upc[u] = "done" /\ uresp[u] \notin {401, 409})
            => /\ Len(outcome[u]) = 1
               /\ uresp[u] = 200 <=> outcome[u] = <<"ok">>
               /\ uresp[u] \in {200, 400}

\* an upload whose entry was dropped unclaimed got its one outcome and 400
C12_Witness ==
    \E u \in Uploads :
        /\ cpc[u] = "done"
        /\ outcome[u] = <<"ready_dropped">>
        /\ upc[u] = "done"
        /\ uresp[u] = 400

\* C13: whatever the interleaving of transfers on several filenames, each
\* item queued on a session's channel was read from that session's upload
\* body, a downloader holds only the session registered under the filename
\* it asked for, every item it received comes from that upload's body in
\* the order read, and a transfer that ended cleanly delivered exactly its
\* own upload's content.
C13_Isolation ==
    /\ \A u \in Uploads :
         \A i \in 1..Len(chan[u]) : chan[u][i].up = u
    /\ \A d \in Downloads :
         dsess[d] # None
            => /\ ufile[dsess[d]] = dfile[d]
               /\ \A i \in 1..Len(recv[d]) :
                    /\ recv[d][i].up = dsess[d]
                    /\ i <= Len(readLog[dsess[d]])
                        => recv[d][i] = readLog[dsess[d]][i]
               /\ (dpc[d] = "eof" /\ outcome[dsess[d]] = <<"ok">>)
                    => recv[d] = readLog[dsess[d]]

\* two transfers on two filenames, both streaming at once, each
\* downloader having its own upload's chunk
C13_Witness ==
    \E d, e \in Downloads :
        /\ dfile[d] # dfile[e]
        /\ dsess[d] # None /\ dsess[e] # None
        /\ dpc[d] = "stream" /\ dpc[e] = "stream"
        /\ recv[d] # <<>> /\ recv[d] = readLog[dsess[d]]
        /\ recv[e] # <<>> /\ recv[e] = readLog[dsess[e]]

\* the credentials the handlers must not accept: no or a malformed header,
\* another username, an empty password, a password the oracle rejects
Rejected(cfg, h) ==
    \/ h.kind # "basic"
    \/ h.username # cfg.username
    \/ h.password = ""
    \/ ~verify_password(h.password, cfg.password_hash)

\* what a request may touch before it is authenticated: nothing
RegistryState == <<streams, lock, ufile, removed, cvars, rx, ready,
                   dfile, dsess, recv>>

C16_ClaimBeatsTimeout ==
    \A u \in Uploads, d \in Downloads :
        (dsess[d] = u /\ dresp[d] = 200)
            => /\ outcome[u] # <<"timeout">>
               /\ ready[u] # "lost"

\* the handlers that are inside a critical section of the registry lock
InCritical ==
    {UpTask(u) : u \in {v \in Uploads : upc[v] \in {"register", "cleanup"}}}
        \cup {DownTask(d) : d \in {e \in Downloads : dpc[e] = "claim"}}

\* C17: registering and claiming exclude each other: at most one handler is
\* inside its lookup, insert or remove.  An entry of the registry is a whole
\* session (receiver and readiness sender both unused); a lookup that finds
\* nothing answers 404 and holds no session; a session that was claimed is
\* out of the registry, its receiver in the hands of one downloader only.
C17_AtomicClaim ==
    /\ Cardinality(InCritical) <= 1
    /\ \A t \in InCritical : lock = t
    /\ \A u \in Uploads :
         /\ InRegistry(u) => rx[u] = "registry" /\ ready[u] = "pending"
         /\ rx[u] = "registry" => Claimers(u) = {}
         /\ Cardinality(Claimers(u)) <= 1
    /\ \A d \in Downloads :
         /\ dresp[d] = 404 => dsess[d] = None
         /\ dsess[d] # None
              => /\ ~InRegistry(dsess[d])
                 /\ rx[dsess[d]] \in {"claimed", "dropped"}
                 /\ ready[dsess[d]] # "none"

\* two downloads of the same filename: one holds the session and its
\* stream, the other was answered 404
C17_Witness ==
    \E d, e \in Downloads :
        /\ dfile[d] = dfile[e]
        /\ dsess[d] # None
        /\ dresp[d] = 200
        /\ dpc[e] = "done"
        /\ dresp[e] = 404
        /\ Cardinality({u \in Uploads : ufile[u] = dfile[d]}) = 1

\* the coordinator has observed the readiness signal and has not ended
Streaming(u) == cpc[u] \in {"read", "send", "send_err"}

\* C18: the timer guards the wait for the readiness signal only.  A
\* coordinator that streams has emitted nothing, its timeout cannot fire,
\* and the step by which it ends emits success or read_error; a session
\* that timed out never read its body.  While the channel is full under a
\* downloader that does not consume, the coordinator can take no step at
\* all and the upload handler has no outcome to answer with.
C18_TimeoutOnlyPending ==
    /\ [][\A u \in Uploads :
            (Streaming(u) /\ outcome'[u] # outcome[u])
                => outcome'[u] \in {<<"ok">>, <<"read_error">>}]_vars
    /\ [](\A u \in Uploads :
            /\ Streaming(u)
                => outcome[u] = <<>> /\ ~ENABLED CoordTimeout(u)
            /\ outcome[u] = <<"timeout">> => readLog[u] = <<>>
            /\ (cpc[u] = "send" /\ ~Closed(u) /\ ~HasRoom(u))
                => /\ ~ENABLED CoordSend(u)
                   /\ upc[u] \in {"await", "cancelled"}
                   /\ uresp[u] = None)

\* the downloader took nothing: sixteen chunks fill the channel, the
\* coordinator holds the seventeenth, no outcome, no response
C18_Witness ==
    \E u \in Uploads, d \in Downloads :
        /\ dsess[d] = u
        /\ dpc[d] = "stream"
        /\ recv[d] = <<>>
        /\ cpc[u] = "send"
        /\ Len(chan[u]) = ChannelCapacity
        /\ held[u] # NoItem
        /\ outcome[u] = <<>>
        /\ upc[u] = "await"

\* C19: the registry lock is held only by a handler that is at its lookup,
\* insert or remove, and the holder's one step under the lock is always
\* possible and releases it.  No upload handler holds it while it awaits
\* the outcome, no download handler while it signals or streams, and the
\* coordinator (waiting for the signal, reading the body, sending into the
\* channel) is never a holder.
C19_LockNotHeldAcrossWait ==
    /\ lock # NoTask => lock \in InCritical
    /\ \A u \in Uploads :
         /\ upc[u] \notin {"register", "cleanup"} => lock # UpTask(u)
         /\ lock = UpTask(u)
              => /\ ENABLED (UploadRegister(u) \/ UploadCleanup(u))
                 /\ ~ENABLED (/\ UploadRegister(u) \/ UploadCleanup(u)
                              /\ lock' # NoTask)
    /\ \A d \in Downloads :
         /\ dpc[d] # "claim" => lock # DownTask(d)
         /\ lock = DownTask(d)
              => /\ ENABLED DownloadClaim(d)
                 /\ ~ENABLED (DownloadClaim(d) /\ lock' # NoTask)

\* an upload handler awaits its outcome behind a full channel, its
\* coordinator blocked in the send, and the lock is free
C19_Witness ==
    \E u \in Uploads :
        /\ upc[u] = "await"
        /\ cpc[u] = "send"
        /\ ~Closed(u)
        /\ ~HasRoom(u)
        /\ lock = NoTask

\* Termination of every registered upload under FairSpec: the coordinator
\* emits its outcome and ends (its tx dropped with it), the upload handler,
\* unless its client left, answers; a streaming download comes to the end
\* of its stream.
Terminates ==
    /\ \A u \in Uploads :
         cpc[u] = "wait_ready"
            ~> (cpc[u] = "done" /\ outcome[u] # <<>>
                /\ upc[u] \in {"done", "cancelled"})
    /\ \A d \in Downloads :
         dpc[d] = "stream" ~> dpc[d] \in {"eof", "error", "disconnected"}

\* C20: under fair scheduling every registered upload terminates (outcome
\* emitted, response given, tx closed, the downloader's stream ended), and
\* an upload that no download ever claimed ends by the timeout.
C20_EveryUploadEnds ==
    /\ Terminates
    /\ [](\A u \in Uploads :
            (cpc[u] = "done" /\ rx[u] # "claimed" /\ Claimers(u) = {})
                => outcome[u] = <<"timeout">>)

====
